---------------------------- MODULE Spec2Model ----------------------------
(***************************************************************************)
(* A model of autosight's Tauri backend: the provider registry, the two    *)
(* manufacturer providers (Koizumi, Tokistar) and the commands that drive  *)
(* them (commands.rs).                                                     *)
(*                                                                         *)
(* Strings are sequences of characters; a character is a one-element       *)
(* string, and a non-ASCII character is written as its code point          *)
(* ("U+FF1A" is the full-width colon).  Option<T> is a sequence of length  *)
(* 0 (None) or 1 (Some).  A formatted message is the tuple of its parts.   *)
(***************************************************************************)
EXTENDS Integers, Sequences, FiniteSets, TLC

\* The longest batch request explored.
MaxItems == 3

None == <<>>
Some(x) == <<x>>
IsSome(o) == Len(o) = 1
IsNone(o) == Len(o) = 0
Unwrap(o) == o[1]

-----------------------------------------------------------------------------
(* Characters and the string functions of the Rust standard library used.  *)

FWColon == "U+FF1A"
LF == "U+000A"
Space == " "
FWSpace == "U+3000"

UpperSeq == <<"A","B","C","D","E","F","G","H","I","J","K","L","M",
              "N","O","P","Q","R","S","T","U","V","W","X","Y","Z">>
LowerSeq == <<"a","b","c","d","e","f","g","h","i","j","k","l","m",
              "n","o","p","q","r","s","t","u","v","w","x","y","z">>
Digits == {"0","1","2","3","4","5","6","7","8","9"}
Range(s) == {s[i] : i \in DOMAIN s}

\* [A-Za-z0-9]
IsAlnum(c) == c \in Range(UpperSeq) \cup Range(LowerSeq) \cup Digits
\* \s (Unicode White_Space), over the characters the inputs use
IsSpace(c) == c \in {Space, LF, FWSpace, "U+0009"}
\* [:：]
IsColon(c) == c \in {":", FWColon}

\* char::to_lowercase
ToLowerChar(c) ==
    IF \E i \in DOMAIN UpperSeq : UpperSeq[i] = c
    THEN LowerSeq[CHOOSE i \in DOMAIN UpperSeq : UpperSeq[i] = c]
    ELSE c

\* str::to_lowercase
ToLower(s) == [i \in DOMAIN s |-> ToLowerChar(s[i])]

\* str::starts_with at an offset: t occurs in s at position i (1-based)
OccursAt(s, t, i) ==
    /\ i >= 1
    /\ i + Len(t) - 1 <= Len(s)
    /\ \A k \in 1..Len(t) : s[i + k - 1] = t[k]

\* str::starts_with
StartsWith(s, t) == OccursAt(s, t, 1)

\* str::ends_with
EndsWith(s, t) == Len(t) <= Len(s) /\ OccursAt(s, t, Len(s) - Len(t) + 1)

\* str::contains
Contains(s, t) == \E i \in 1..(Len(s) + 1) : OccursAt(s, t, i)

\* str::find: the first position of t in s, None when absent
Find(s, t) ==
    IF Contains(s, t)
    THEN Some(CHOOSE i \in 1..(Len(s) + 1) :
              OccursAt(s, t, i) /\ \A j \in 1..(i - 1) : ~OccursAt(s, t, j))
    ELSE None

\* str::trim_end_matches: removes every trailing repetition of t
RECURSIVE TrimEndMatches(_, _)
TrimEndMatches(s, t) ==
    IF Len(t) > 0 /\ EndsWith(s, t)
    THEN TrimEndMatches(SubSeq(s, 1, Len(s) - Len(t)), t)
    ELSE s

\* str::trim_start_matches
RECURSIVE TrimStartMatches(_, _)
TrimStartMatches(s, t) ==
    IF Len(t) > 0 /\ StartsWith(s, t)
    THEN TrimStartMatches(SubSeq(s, Len(t) + 1, Len(s)), t)
    ELSE s

\* str::trim
RECURSIVE TrimStart(_)
TrimStart(s) == IF Len(s) > 0 /\ IsSpace(s[1]) THEN TrimStart(Tail(s)) ELSE s
RECURSIVE TrimEnd(_)
TrimEnd(s) ==
    IF Len(s) > 0 /\ IsSpace(s[Len(s)])
    THEN TrimEnd(SubSeq(s, 1, Len(s) - 1))
    ELSE s
Trim(s) == TrimEnd(TrimStart(s))

\* str::replace of one character by a string
RECURSIVE ReplaceChar(_, _, _)
ReplaceChar(s, c, t) ==
    IF Len(s) = 0 THEN <<>>
    ELSE (IF s[1] = c THEN t ELSE <<s[1]>>) \o ReplaceChar(Tail(s), c, t)

\* the text of s before the first occurrence of the character c (all of s
\* when there is none): str::split(c).next()
RECURSIVE SplitFirst(_, _)
SplitFirst(s, c) ==
    IF Len(s) = 0 \/ s[1] = c THEN <<>>
    ELSE <<s[1]>> \o SplitFirst(Tail(s), c)

\* [String]::join
RECURSIVE Join(_, _)
Join(parts, sep) ==
    IF Len(parts) = 0 THEN <<>>
    ELSE IF Len(parts) = 1 THEN parts[1]
    ELSE parts[1] \o sep \o Join(Tail(parts), sep)

\* Path::file_name of an entry whose last component is a normal one: the
\* text after the last '/'
RECURSIVE FileName(_)
FileName(p) ==
    IF \E i \in DOMAIN p : p[i] = "/"
    THEN FileName(SubSeq(p, (CHOOSE i \in DOMAIN p : p[i] = "/") + 1, Len(p)))
    ELSE p

DotIes == <<".", "i", "e", "s">>
DotIES == <<".", "I", "E", "S">>

DQuote == "U+0022"

\* a text written out as a string of ASCII characters
FilenameEq == <<"f","i","l","e","n","a","m","e","=">>

-----------------------------------------------------------------------------
(* providers/koizumi.rs: the pure helpers.                                 *)

\* the first index >= j of s that holds no whitespace (Len(s) + 1 if none)
RECURSIVE SkipSpaces(_, _)
SkipSpaces(s, j) ==
    IF j <= Len(s) /\ IsSpace(s[j]) THEN SkipSpaces(s, j + 1) ELSE j

\* the first index >= j of s that holds no [A-Za-z0-9] (Len(s) + 1 if none)
RECURSIVE SkipAlnum(_, _)
SkipAlnum(s, j) ==
    IF j <= Len(s) /\ IsAlnum(s[j]) THEN SkipAlnum(s, j + 1) ELSE j

\* the regex [:：]\s*([A-Za-z0-9]+) matches s starting at index i
ColonTokenAt(s, i) ==
    /\ i \in DOMAIN s
    /\ IsColon(s[i])
    /\ SkipSpaces(s, i + 1) <= Len(s)
    /\ IsAlnum(s[SkipSpaces(s, i + 1)])

\* captures_iter of that regex over s from index pos on: capture group 1 of
\* every leftmost non-overlapping match
RECURSIVE ColonTokensFrom(_, _)
ColonTokensFrom(s, pos) ==
    IF \E i \in pos..Len(s) : ColonTokenAt(s, i)
    THEN LET i == CHOOSE k \in pos..Len(s) :
                      ColonTokenAt(s, k) /\ \A m \in pos..(k - 1) : ~ColonTokenAt(s, m)
             b == SkipSpaces(s, i + 1)
             e == SkipAlnum(s, b)
         IN  <<SubSeq(s, b, e - 1)>> \o ColonTokensFrom(s, e)
    ELSE <<>>

\* the regex [:：]\s*([A-Za-z0-9]+)$ matches s starting at index i
ColonTailAt(s, i) == ColonTokenAt(s, i) /\ SkipAlnum(s, SkipSpaces(s, i + 1)) = Len(s) + 1

\* extract_psu_model_number with the regex not anchored at the end
extract_psu_model_number_unanchored(psu) ==
    IF \E i \in DOMAIN psu : ColonTokenAt(psu, i)
    THEN Some(ColonTokensFrom(psu, 1)[1])
    ELSE None

extract_psu_model_number(psu) ==
    IF \E i \in DOMAIN psu : ColonTailAt(psu, i)
    THEN LET i == CHOOSE k \in DOMAIN psu :
                      ColonTailAt(psu, k) /\ \A m \in 1..(k - 1) : ~ColonTailAt(psu, m)
         IN  Some(SubSeq(psu, SkipSpaces(psu, i + 1), Len(psu)))
    ELSE None

extract_fixture_model_numbers(fixture) ==
    LET matches == ColonTokensFrom(fixture, 1)
    IN  IF matches = <<>> THEN <<Trim(fixture)>> ELSE matches

\* psu: Option<&str>
build_item_id(fixture, psu) ==
    LET parts == extract_fixture_model_numbers(fixture)
        psu_model == IF IsSome(psu) THEN extract_psu_model_number(Unwrap(psu)) ELSE None
    IN  Join(IF IsSome(psu_model) THEN Append(parts, Unwrap(psu_model)) ELSE parts,
             <<"+">>)

extract_filename_from_header(header_value) ==
    LET start == Find(header_value, FilenameEq)
    IN  IF IsNone(start) THEN None
        ELSE LET rest == SubSeq(header_value, Unwrap(start) + Len(FilenameEq),
                                Len(header_value))
             IN  IF StartsWith(rest, <<DQuote>>)
                 THEN Some(SplitFirst(TrimStartMatches(rest, <<DQuote>>), DQuote))
                 ELSE Some(Trim(SplitFirst(rest, ";")))

KoizumiAliases ==
    { <<"U+30B3","U+30A4","U+30BA","U+30DF">>,
      <<"k","o","i","z","u","m","i">>,
      <<"U+3053","U+3044","U+305A","U+307F">> }

\* koizumi_can_handle comparing the text as written
koizumi_can_handle_cased(manufacturer) ==
    \E a \in KoizumiAliases : Contains(manufacturer, a)

koizumi_can_handle(manufacturer) ==
    \E a \in KoizumiAliases : Contains(ToLower(manufacturer), a)

koizumi_generate_filename(spec_no, model_number, psu, original_filename) ==
    IF IsSome(original_filename)
    THEN LET name == TrimEndMatches(TrimEndMatches(Unwrap(original_filename), DotIes),
                                    DotIES)
         IN  spec_no \o <<"_">> \o name \o DotIes
    ELSE LET safe_model == ReplaceChar(ReplaceChar(model_number, "/", <<"_">>),
                                       "\\", <<"_">>)
         IN  IF IsSome(psu) /\ Unwrap(psu) # <<>>
             THEN LET safe_psu == ReplaceChar(ReplaceChar(Unwrap(psu), "/", <<"_">>),
                                              "\\", <<"_">>)
                  IN  spec_no \o <<"_">> \o safe_model \o <<"+">> \o safe_psu \o DotIes
             ELSE spec_no \o <<"_">> \o safe_model \o DotIes

-----------------------------------------------------------------------------
(* providers/tokistar.rs: the pure helpers.                                *)

extract_partial_fixture_id(fixture_id) == SplitFirst(fixture_id, "-")

RECURSIVE common_prefix_length(_, _)
common_prefix_length(a, b) ==
    IF Len(a) > 0 /\ Len(b) > 0 /\ a[1] = b[1]
    THEN 1 + common_prefix_length(Tail(a), Tail(b))
    ELSE 0

\* the key select_best_ies_file gives the candidate f
match_len(fixture_id, f) ==
    LET normalized == ReplaceChar(fixture_id, "-", <<"_">>)
        name == TrimEndMatches(TrimEndMatches(FileName(f), DotIes), DotIES)
    IN  common_prefix_length(normalized, name)

\* select_best_ies_file taking the first candidate that shares a character
select_first_match(fixture_id, ies_files) ==
    IF \E i \in DOMAIN ies_files : match_len(fixture_id, ies_files[i]) > 0
    THEN Some(ies_files[CHOOSE i \in DOMAIN ies_files :
                  /\ match_len(fixture_id, ies_files[i]) > 0
                  /\ \A j \in 1..(i - 1) : match_len(fixture_id, ies_files[j]) = 0])
    ELSE None

\* select_best_ies_file without the filter on the length
select_best_unfiltered(fixture_id, ies_files) ==
    IF ies_files = <<>> THEN None
    ELSE Some(ies_files[CHOOSE i \in DOMAIN ies_files :
                  /\ \A j \in DOMAIN ies_files :
                         match_len(fixture_id, ies_files[j]) <= match_len(fixture_id, ies_files[i])
                  /\ \A j \in DOMAIN ies_files :
                         j > i => match_len(fixture_id, ies_files[j])
                                    < match_len(fixture_id, ies_files[i])])

\* Iterator::max_by_key returns the last of the maximal elements
select_best_ies_file(fixture_id, ies_files) ==
    IF ies_files = <<>> THEN None
    ELSE LET best == CHOOSE i \in DOMAIN ies_files :
                 /\ \A j \in DOMAIN ies_files :
                        match_len(fixture_id, ies_files[j]) <= match_len(fixture_id, ies_files[i])
                 /\ \A j \in DOMAIN ies_files :
                        j > i => match_len(fixture_id, ies_files[j])
                                   < match_len(fixture_id, ies_files[i])
         IN  IF match_len(fixture_id, ies_files[best]) > 0
             THEN Some(ies_files[best])
             ELSE None

TokistarAliases ==
    { <<"t","o","k","i","s","t","a","r">>,
      <<"U+30C8","U+30AD","U+30B9","U+30BF","U+30FC">> }

tokistar_can_handle(manufacturer) ==
    \E a \in TokistarAliases : Contains(ToLower(manufacturer), a)

\* tokistar_generate_filename testing the extension as written
tokistar_generate_filename_cased(spec_no, model_number, psu, original_filename) ==
    IF IsSome(original_filename)
    THEN IF EndsWith(Unwrap(original_filename), DotIes)
         THEN spec_no \o <<"_">> \o Unwrap(original_filename)
         ELSE spec_no \o <<"_">> \o Unwrap(original_filename) \o DotIes
    ELSE spec_no \o <<"_">>
           \o ReplaceChar(ReplaceChar(model_number, "/", <<"_">>), "\\", <<"_">>)
           \o DotIes

tokistar_generate_filename(spec_no, model_number, psu, original_filename) ==
    IF IsSome(original_filename)
    THEN IF EndsWith(ToLower(Unwrap(original_filename)), DotIes)
         THEN spec_no \o <<"_">> \o Unwrap(original_filename)
         ELSE spec_no \o <<"_">> \o Unwrap(original_filename) \o DotIes
    ELSE spec_no \o <<"_">>
           \o ReplaceChar(ReplaceChar(model_number, "/", <<"_">>), "\\", <<"_">>)
           \o DotIes

-----------------------------------------------------------------------------
(* providers/mod.rs: DownloadResult, the trait's dispatch and the registry. *)

DownloadResult_success(file_path, file_size, original_filename) ==
    [ success |-> TRUE,
      file_path |-> Some(file_path),
      file_size |-> Some(file_size),
      original_filename |-> original_filename,
      error |-> None ]

DownloadResult_failure(error) ==
    [ success |-> FALSE,
      file_path |-> None,
      file_size |-> None,
      original_filename |-> None,
      error |-> Some(error) ]

\* Result<T, String>
Ok(v) == [ok |-> TRUE, val |-> v]
Err(e) == [ok |-> FALSE, val |-> e]

Koizumi == "KoizumiProvider"
Tokistar == "TokistarProvider"

\* ProviderRegistry::new: the providers in registration order
providers == <<Koizumi, Tokistar>>

can_handle(p, manufacturer) ==
    IF p = Koizumi THEN koizumi_can_handle(manufacturer)
    ELSE tokistar_can_handle(manufacturer)

generate_filename(p, spec_no, model_number, psu, original_filename) ==
    IF p = Koizumi
    THEN koizumi_generate_filename(spec_no, model_number, psu, original_filename)
    ELSE tokistar_generate_filename(spec_no, model_number, psu, original_filename)

\* get_provider falling back to the first registered provider
get_provider_or_first(manufacturer) ==
    IF \E i \in DOMAIN providers : can_handle(providers[i], manufacturer)
    THEN Some(providers[CHOOSE i \in DOMAIN providers :
                  /\ can_handle(providers[i], manufacturer)
                  /\ \A j \in 1..(i - 1) : ~can_handle(providers[j], manufacturer)])
    ELSE Some(providers[1])

\* Iterator::find: the first provider that can handle the manufacturer
get_provider(manufacturer) ==
    IF \E i \in DOMAIN providers : can_handle(providers[i], manufacturer)
    THEN Some(providers[CHOOSE i \in DOMAIN providers :
                  /\ can_handle(providers[i], manufacturer)
                  /\ \A j \in 1..(i - 1) : ~can_handle(providers[j], manufacturer)])
    ELSE None

-----------------------------------------------------------------------------
(* The inputs explored and the answers the outside world may give.         *)

\* manufacturer texts: two spellings of registered vendors, one unknown vendor
Manufacturers == { <<"K","O","I","Z","U","M","I">>, <<"T","o","k","i","S","t","a","r">>, <<"U+5927","U+5149">> }

\* fixture texts: a plain model number, a labelled two-part fixture
\* ("本体：AH9\nユニット:AE4") and a Tokistar model number
ModelNumbers == { <<"A","D","1">>, <<"U+672C","U+4F53","U+FF1A","A","H","9","U+000A","U+30E6","U+30CB","U+30C3","U+30C8",":","A","E","4">>, <<"t","e","m","p","-","1">> }

\* accessory texts: absent, empty, a description without an id, one with an id
Psus == { None, Some(<<>>), Some(<<"P">>), Some(<<"P","U+FF1A","X","E","9">>) }

\* the batch items offered to a request
Catalogue ==
    { [spec_no |-> <<"t","e","m","p","_","1">>, manufacturer |-> <<"K","O","I","Z","U","M","I">>,
       model_number |-> <<"A","D","1">>, psu |-> Some(<<"P","U+FF1A","X","E","9">>)],
      [spec_no |-> <<"2">>, manufacturer |-> <<"U+5927","U+5149">>,
       model_number |-> <<"A","D","1">>, psu |-> None],
      [spec_no |-> <<"t","e","m","p">>, manufacturer |-> <<"T","o","k","i","S","t","a","r">>,
       model_number |-> <<"t","e","m","p","-","1">>, psu |-> None],
      [spec_no |-> <<"3">>, manufacturer |-> <<"P","a","n","a","s","o","n","i","c">>,
       model_number |-> <<"U+672C","U+4F53","U+FF1A","A","H","9","U+000A","U+30E6","U+30CB","U+30C3","U+30C8",":","A","E","4">>, psu |-> Some(<<>>)] }

\* the sequences over S of at most n elements
RECURSIVE SeqsUpTo(_, _)
SeqsUpTo(S, n) ==
    IF n = 0 THEN {<<>>}
    ELSE LET shorter == SeqsUpTo(S, n - 1)
         IN  shorter \cup {Append(q, x) : q \in {t \in shorter : Len(t) = n - 1},
                                          x \in S}

DestDir == <<"d">>
DestPath == <<"o","/","f",".","i","e","s">>

\* the calls the frontend may make; the items of a batch request have
\* pairwise distinct spec_no (the frontend takes them from distinct rows)
Calls ==
    {[op |-> "batch", request |-> [items |-> its, dest_dir |-> DestDir]] :
        its \in {q \in SeqsUpTo(Catalogue, MaxItems) :
                    \A i, j \in DOMAIN q : q[i].spec_no = q[j].spec_no => i = j}}
    \cup {[op |-> "download", manufacturer |-> m, model_number |-> n, psu |-> a,
           dest_path |-> DestPath] : m \in Manufacturers, n \in ModelNumbers, a \in Psus}
    \cup {[op |-> "fetch", manufacturer |-> m, model_number |-> n] :
           m \in Manufacturers, n \in ModelNumbers}

\* what a page request may come to: the request fails, the body cannot be
\* read, or a page arrives; of a page only the capture of the provider's link
\* pattern matters (None: no link in the page)
PageAnswers(links) ==
    {[kind |-> "send_err"], [kind |-> "read_err"]}
    \cup {[kind |-> "page", link |-> l] : l \in {None} \cup {Some(x) : x \in links}}

\* file ids a Koizumi detail page may link to
FileIds == { <<"7">> }
\* archive URLs a Tokistar search page may link to
ZipUrls == { <<"/","I","E","S","_","T",".","z","i","p">> }

\* Content-Disposition headers of a Koizumi download: absent, quoted,
\* unquoted, and without a filename
Headers ==
    { None, Some(<<"a",";"," ","f","i","l","e","n","a","m","e","=","U+0022","A",".","i","e","s","U+0022">>), Some(<<"f","i","l","e","n","a","m","e","=","B",".","I","E","S",";","q">>), Some(<<"i","n","l","i","n","e">>) }

\* the bytes of a served file
Bodies == { <<"I", "E", "S">> }

\* the entry names of the archives Tokistar may serve
Archives ==
    { <<<<"r",".","t","x","t">>>>,
      <<<<"d","/","t","e","m","p",".","i","e","s">>, <<"x",".","I","E","S">>>>,
      <<<<"t","e","m","p","_","1",".","i","e","s">>, <<"r",".","t","x","t">>>>,
      <<<<"x",".","i","e","s">>>> }

\* the detail of a transport error and of a filesystem error
NetError == "reqwest::Error"
IoError == "io::Error"
ZipError == "zip::ZipError"

\* a literal part of a formatted message
Text(t) == <<t>>

-----------------------------------------------------------------------------
(* The providers' network steps, as functions of the world's answer.       *)

KoizumiBaseUrl == Text("https://webcatalog.koizumi-lt.co.jp")

\* KoizumiProvider::get_ies_download_url, given the answer to its request:
\* Result<Option<String>, String>
get_ies_download_url(answer) ==
    IF answer.kind = "send_err"
    THEN Err(<<Text("Detail request failed: "), Text(NetError)>>)
    ELSE IF answer.kind = "read_err"
    THEN Err(<<Text("Failed to read response: "), Text(NetError)>>)
    ELSE IF IsSome(answer.link)
    THEN Ok(Some(<<KoizumiBaseUrl,
                   Text("/kensaku/download/file/file_type/haikou_data/id/"),
                   Unwrap(answer.link)>>))
    ELSE Ok(None)

\* TokistarProvider::get_ies_zip_url, given the answer to its request
get_ies_zip_url(answer) ==
    IF answer.kind = "send_err"
    THEN Err(<<Text("Search request failed: "), Text(NetError)>>)
    ELSE IF answer.kind = "read_err"
    THEN Err(<<Text("Failed to read response: "), Text(NetError)>>)
    ELSE IF IsSome(answer.link) THEN Ok(Some(Unwrap(answer.link)))
    ELSE Ok(None)

\* what create_dir_all and fs::write may come to
FsOutcomes == {"ok", "mkdir_err", "write_err"}

\* the end of a provider call: its return value, why it ended so, and the
\* bytes it wrote to dest_path (None: nothing written)
Ended(ret, cause, written) == [ret |-> ret, cause |-> cause, written |-> written]

\* both providers' tail: create the parent directory, write the file, succeed
save_file(dest_path, bytes, original_filename, fsout) ==
    IF fsout = "mkdir_err"
    THEN Ended(Err(<<Text("Failed to create directory: "), Text(IoError)>>),
               "filesystem", None)
    ELSE IF fsout = "write_err"
    THEN Ended(Err(<<Text("Failed to write file: "), Text(IoError)>>),
               "filesystem", None)
    ELSE Ended(Ok(DownloadResult_success(dest_path, Len(bytes), original_filename)),
               "ok", Some(bytes))

\* the answers to KoizumiProvider::download_ies_file's GET of the file
KoizumiFileAnswers ==
    {[kind |-> "send_err"], [kind |-> "status", status |-> Text("404 Not Found")],
     [kind |-> "body_err"]}
    \cup {[kind |-> "ok", header |-> h, body |-> b] : h \in Headers, b \in Bodies}

\* KoizumiProvider::download_ies_file from the GET of the file on
koizumi_fetch_file(answer, fsout, dest_path) ==
    IF answer.kind = "send_err"
    THEN Ended(Err(<<Text("Download request failed: "), Text(NetError)>>),
               "transport", None)
    ELSE IF answer.kind = "status"
    THEN Ended(Ok(DownloadResult_failure(
                   <<Text("Download failed with status: "), answer.status>>)),
               "http_status", None)
    ELSE IF answer.kind = "body_err"
    THEN Ended(Err(<<Text("Failed to read file content: "), Text(NetError)>>),
               "transport", None)
    ELSE save_file(dest_path, answer.body,
                   IF IsSome(answer.header)
                   THEN extract_filename_from_header(Unwrap(answer.header))
                   ELSE None,
                   fsout)

\* the answers to TokistarProvider::download_and_extract_ies's GET of the
\* archive; entry: whether the chosen entry can be opened and read
TokistarZipAnswers ==
    {[kind |-> "send_err"], [kind |-> "status", status |-> Text("404 Not Found")],
     [kind |-> "body_err"], [kind |-> "bad_zip"]}
    \cup {[kind |-> "ok", names |-> a, entry |-> e] :
            a \in Archives, e \in {"ok", "by_name_err", "read_err"}}

\* the bytes of an archive entry
EntryData(name) == <<"#">> \o name

\* name.to_lowercase().ends_with(".ies")
IsIesName(name) == EndsWith(ToLower(name), DotIes)

\* TokistarProvider::download_and_extract_ies
download_and_extract_ies(answer, fsout, fixture_id, dest_path) ==
    IF answer.kind = "send_err"
    THEN Ended(Err(<<Text("ZIP download failed: "), Text(NetError)>>),
               "transport", None)
    ELSE IF answer.kind = "status"
    THEN Ended(Ok(DownloadResult_failure(
                   <<Text("ZIP download failed with status: "), answer.status>>)),
               "http_status", None)
    ELSE IF answer.kind = "body_err"
    THEN Ended(Err(<<Text("Failed to read ZIP content: "), Text(NetError)>>),
               "transport", None)
    ELSE IF answer.kind = "bad_zip"
    THEN Ended(Err(<<Text("Failed to open ZIP: "), Text(ZipError)>>), "archive", None)
    ELSE LET ies_files == SelectSeq(answer.names, IsIesName)
             best_file == select_best_ies_file(fixture_id, ies_files)
         IN  IF ies_files = <<>>
             THEN Ended(Ok(DownloadResult_failure(<<Text("No .ies files found in ZIP")>>)),
                        "not_found", None)
             ELSE IF IsNone(best_file)
             THEN Ended(Err(<<Text("No matching .ies file found for: "), fixture_id>>),
                        "not_found", None)
             ELSE IF answer.entry = "by_name_err"
             THEN Ended(Err(<<Text("Failed to read "), Unwrap(best_file),
                              Text(" from ZIP: "), Text(ZipError)>>),
                        "archive", None)
             ELSE IF answer.entry = "read_err"
             THEN Ended(Err(<<Text("Failed to read file content: "), Text(IoError)>>),
                        "archive", None)
             ELSE save_file(dest_path, EntryData(Unwrap(best_file)),
                            Some(FileName(Unwrap(best_file))), fsout)

-----------------------------------------------------------------------------
(* commands.rs: the pure parts of batch_download_ies_files.                *)

\* temp_path with one name for every item
temp_path_shared(dest_dir, spec_no) == dest_dir \o <<"/","t","e","m","p">> \o DotIes

temp_path(dest_dir, spec_no) ==
    dest_dir \o <<"/","t","e","m","p","_">> \o spec_no \o DotIes

final_path(dest_dir, filename) == dest_dir \o <<"/">> \o filename

\* the result of an item with no provider
no_provider_result(item) ==
    DownloadResult_failure(<<Text("No provider for: "), item.manufacturer>>)

\* provider_err_result losing the provider's message
provider_err_result_generic(e) == DownloadResult_failure(<<Text("Download failed")>>)

\* the result of an item whose provider returned Err(e)
provider_err_result(e) == DownloadResult_failure(e)

\* after_rename with the failed rename's message put into the downloaded
\* result instead of replacing it
after_rename_keeps_path(r, path, renamed) ==
    IF renamed
    THEN [r EXCEPT !.file_path = Some(path)]
    ELSE [r EXCEPT !.success = FALSE,
                   !.error = Some(<<Text("Failed to rename file: "), Text(IoError)>>)]

\* the result of an item whose download succeeded, after std::fs::rename
\* (renamed: whether the rename succeeded)
after_rename(r, path, renamed) ==
    IF renamed
    THEN [r EXCEPT !.file_path = Some(path)]
    ELSE DownloadResult_failure(<<Text("Failed to rename file: "), Text(IoError)>>)

\* tally without its else branch
tally_no_else(counts, result) ==
    IF result.success
    THEN [counts EXCEPT !.success_count = @ + 1]
    ELSE counts

\* success_count and failure_count after an item's result
tally(counts, result) ==
    IF result.success
    THEN [counts EXCEPT !.success_count = @ + 1]
    ELSE [counts EXCEPT !.failure_count = @ + 1]

processing_event(item) ==
    [spec_no |-> item.spec_no, status |-> "processing", error |-> None]

\* terminal_event without the error message
terminal_event_no_error(item, result) ==
    [spec_no |-> item.spec_no,
     status |-> IF result.success THEN "success" ELSE "error",
     error |-> None]

terminal_event(item, result) ==
    [spec_no |-> item.spec_no,
     status |-> IF result.success THEN "success" ELSE "error",
     error |-> result.error]

\* push_result inserting at the front
push_result_front(rs, item, result) ==
    <<[spec_no |-> item.spec_no, model_number |-> item.model_number,
       result |-> result]>> \o rs

push_result(rs, item, result) ==
    Append(rs, [spec_no |-> item.spec_no, model_number |-> item.model_number,
                result |-> result])

\* std::fs::rename on the files: the file at from is at to afterwards
renamed_files(files, from, to) ==
    [q \in (DOMAIN files \ {from}) \cup {to} |->
        IF q = to THEN files[from] ELSE files[q]]

\* std::fs::write on the files
written_files(files, path, bytes) ==
    [q \in DOMAIN files \cup {path} |-> IF q = path THEN bytes ELSE files[q]]

-----------------------------------------------------------------------------
(* The state.                                                              *)

VARIABLES
    call,       \* the command invoked and its arguments
    pc,         \* where the command is: invoked, loop, provider, fetch, returned
    idx,        \* batch: the index of the item the loop is at
    results,    \* batch: results
    counts,     \* batch: success_count and failure_count
    events,     \* the "download-progress" events emitted, in order
    files,      \* the files on disk: path -> bytes
    ret,        \* the command's return value (None until it returns)
    ppc,        \* where the provider's download_ies_file is
    pargs,      \* its arguments: provider, model_number, psu, dest_path
    item_id,    \* Koizumi: item_id
    url,        \* the download URL found
    lookups,    \* the page requests the provider call made, in order
    pret,       \* the provider call's return value and cause (None until it ends)
    provlog     \* batch: per item, what its provider call returned (None: no call)

vars == <<call, pc, idx, results, counts, events, files, ret,
          ppc, pargs, item_id, url, lookups, pret, provlog>>

cmdVars == <<idx, results, counts, events, ret, provlog>>
provVars == <<ppc, pargs, item_id, url, lookups, pret>>

Init ==
    /\ call \in Calls
    /\ pc = "invoked"
    /\ idx = 0
    /\ results = <<>>
    /\ counts = [success_count |-> 0, failure_count |-> 0]
    /\ events = <<>>
    /\ files = <<>>
    /\ ret = None
    /\ ppc = "idle"
    /\ pargs = None
    /\ item_id = <<>>
    /\ url = None
    /\ lookups = <<>>
    /\ pret = None
    /\ provlog = <<>>

\* the call of provider.download_ies_file(model_number, psu, dest_path)
CallProvider(p, model_number, psu, dest_path) ==
    /\ pargs' = Some([provider |-> p, model_number |-> model_number, psu |-> psu,
                      dest_path |-> dest_path])
    /\ ppc' = IF p = Koizumi THEN "k_lookup" ELSE "t_search"
    /\ item_id' = IF p = Koizumi THEN build_item_id(model_number, psu) ELSE <<>>
    /\ url' = None
    /\ lookups' = <<>>
    /\ pret' = None

\* the provider call's future is dropped
ProviderDropped ==
    /\ ppc' = "idle"
    /\ pargs' = None
    /\ item_id' = <<>>
    /\ url' = None
    /\ lookups' = <<>>
    /\ pret' = None

\* the provider call ends
ProviderEnds(e) ==
    /\ ppc' = "done"
    /\ pret' = Some(e)
    /\ files' = IF IsSome(e.written)
                THEN written_files(files, Unwrap(pargs).dest_path, Unwrap(e.written))
                ELSE files

-----------------------------------------------------------------------------
(* KoizumiProvider::download_ies_file, one action per awaited request.     *)

\* a page request made: its key and what get_ies_download_url or
\* get_ies_zip_url made of the answer ("err", "none", "link")
Lookup(key, r) ==
    [key |-> key, found |-> IF ~r.ok THEN "err" ELSE IF IsSome(r.val) THEN "link" ELSE "none"]

\* psu.is_some_and(|p| !p.is_empty())
psu_given(psu) == IsSome(psu) /\ Unwrap(psu) # <<>>

\* the key of the second lookup
fallback_key(model_number, id) == model_number

\* the first get_ies_download_url(&item_id).await
KoizumiLookup ==
    /\ ppc = "k_lookup"
    /\ \E answer \in PageAnswers(FileIds) :
        LET r == get_ies_download_url(answer)
            a == Unwrap(pargs)
        IN  /\ lookups' = Append(lookups, Lookup(item_id, r))
            /\ IF ~r.ok
               THEN ProviderEnds(Ended(r, "transport", None)) /\ url' = url
               ELSE IF IsSome(r.val)
               THEN ppc' = "k_get" /\ url' = r.val /\ UNCHANGED <<pret, files>>
               ELSE IF psu_given(a.psu)
               THEN ppc' = "k_fallback" /\ UNCHANGED <<url, pret, files>>
               ELSE /\ ProviderEnds(Ended(
                          Err(<<Text("IES file not available for: "), item_id>>),
                          "not_found", None))
                    /\ url' = url
    /\ UNCHANGED <<call, pc, pargs, item_id>>
    /\ UNCHANGED cmdVars

\* the second get_ies_download_url(model_number).await
KoizumiFallback ==
    /\ ppc = "k_fallback"
    /\ \E answer \in PageAnswers(FileIds) :
        LET r == get_ies_download_url(answer)
            a == Unwrap(pargs)
        IN  /\ lookups' = Append(lookups, Lookup(fallback_key(a.model_number, item_id), r))
            /\ IF ~r.ok
               THEN ProviderEnds(Ended(r, "transport", None)) /\ url' = url
               ELSE IF IsSome(r.val)
               THEN ppc' = "k_get" /\ url' = r.val /\ UNCHANGED <<pret, files>>
               ELSE /\ ProviderEnds(Ended(
                          Err(<<Text("IES file not found for: "), item_id,
                                Text(" nor "), a.model_number>>),
                          "not_found", None))
                    /\ url' = url
    /\ UNCHANGED <<call, pc, pargs, item_id>>
    /\ UNCHANGED cmdVars

\* the GET of the file, and the write to dest_path
KoizumiGet ==
    /\ ppc = "k_get"
    /\ \E answer \in KoizumiFileAnswers, fsout \in FsOutcomes :
        ProviderEnds(koizumi_fetch_file(answer, fsout, Unwrap(pargs).dest_path))
    /\ UNCHANGED <<call, pc, pargs, item_id, url, lookups>>
    /\ UNCHANGED cmdVars

-----------------------------------------------------------------------------
(* TokistarProvider::download_ies_file.                                    *)

\* get_ies_zip_url(&partial_id).await
TokistarSearch ==
    /\ ppc = "t_search"
    /\ \E answer \in PageAnswers(ZipUrls) :
        LET r == get_ies_zip_url(answer)
            partial_id == extract_partial_fixture_id(Unwrap(pargs).model_number)
        IN  /\ lookups' = Append(lookups, Lookup(partial_id, r))
            /\ IF ~r.ok
               THEN ProviderEnds(Ended(r, "transport", None)) /\ url' = url
               ELSE IF IsSome(r.val)
               THEN ppc' = "t_zip" /\ url' = r.val /\ UNCHANGED <<pret, files>>
               ELSE /\ ProviderEnds(Ended(
                          Err(<<Text("IES file not found for: "), partial_id>>),
                          "not_found", None))
                    /\ url' = url
    /\ UNCHANGED <<call, pc, pargs, item_id>>
    /\ UNCHANGED cmdVars

\* download_and_extract_ies(&zip_url, model_number, dest_path).await
TokistarZip ==
    /\ ppc = "t_zip"
    /\ \E answer \in TokistarZipAnswers, fsout \in FsOutcomes :
        ProviderEnds(download_and_extract_ies(answer, fsout,
                        Unwrap(pargs).model_number, Unwrap(pargs).dest_path))
    /\ UNCHANGED <<call, pc, pargs, item_id, url, lookups>>
    /\ UNCHANGED cmdVars

-----------------------------------------------------------------------------
(* commands.rs: batch_download_ies_files.                                  *)

Items == call.request.items

\* registry.lock().await, and the locals
BatchStart ==
    /\ pc = "invoked" /\ call.op = "batch"
    /\ pc' = "loop"
    /\ idx' = 1
    /\ results' = <<>>
    /\ counts' = [success_count |-> 0, failure_count |-> 0]
    /\ UNCHANGED <<call, events, files, ret, provlog>>
    /\ UNCHANGED provVars

\* the end of an iteration, from the item's result on
Record(item, result, emitted) ==
    /\ counts' = tally(counts, result)
    /\ events' = Append(emitted, terminal_event(item, result))
    /\ results' = push_result(results, item, result)
    /\ idx' = idx + 1

\* an iteration for an item no provider handles
BatchItemNoProvider ==
    /\ pc = "loop" /\ idx <= Len(Items)
    /\ LET item == Items[idx]
       IN  /\ IsNone(get_provider(item.manufacturer))
           /\ Record(item, no_provider_result(item),
                     Append(events, processing_event(item)))
    /\ provlog' = Append(provlog, None)
    /\ UNCHANGED <<call, pc, files, ret>>
    /\ UNCHANGED provVars

\* an iteration up to the provider's download_ies_file(..).await
BatchItemDownload ==
    /\ pc = "loop" /\ idx <= Len(Items)
    /\ LET item == Items[idx]
           provider == get_provider(item.manufacturer)
       IN  /\ IsSome(provider)
           /\ events' = Append(events, processing_event(item))
           /\ CallProvider(Unwrap(provider), item.model_number, item.psu,
                           temp_path(call.request.dest_dir, item.spec_no))
    /\ pc' = "provider"
    /\ UNCHANGED <<call, idx, results, counts, files, ret, provlog>>

\* the rest of the iteration, once the provider call has returned
BatchItemFinish ==
    /\ pc = "provider" /\ call.op = "batch" /\ ppc = "done"
    /\ LET item == Items[idx]
           a == Unwrap(pargs)
           got == Unwrap(pret).ret
       IN  IF got.ok /\ got.val.success
           THEN LET filename == generate_filename(a.provider, item.spec_no,
                                    item.model_number, item.psu,
                                    got.val.original_filename)
                    path == final_path(call.request.dest_dir, filename)
                IN  \E renamed \in BOOLEAN :
                        /\ Record(item, after_rename(got.val, path, renamed), events)
                        /\ files' = IF renamed
                                    THEN renamed_files(files, a.dest_path, path)
                                    ELSE files
           ELSE /\ Record(item,
                          IF got.ok THEN got.val ELSE provider_err_result(got.val),
                          events)
                /\ files' = files
    /\ provlog' = Append(provlog, Some(Unwrap(pret).ret))
    /\ pc' = "loop"
    /\ ProviderDropped
    /\ UNCHANGED <<call, ret>>

\* after the loop
BatchReturn ==
    /\ pc = "loop" /\ idx > Len(Items)
    /\ ret' = Some(Ok([success_count |-> counts.success_count,
                       failure_count |-> counts.failure_count,
                       results |-> results]))
    /\ pc' = "returned"
    /\ UNCHANGED <<call, idx, results, counts, events, files, provlog>>
    /\ UNCHANGED provVars

-----------------------------------------------------------------------------
(* commands.rs: download_ies_file and fetch_product_info.                  *)

no_provider_error(manufacturer) ==
    Err(<<Text("No provider for manufacturer: "), manufacturer>>)

\* download_ies_file for a manufacturer no provider handles
DownloadNoProvider ==
    /\ pc = "invoked" /\ call.op = "download"
    /\ IsNone(get_provider(call.manufacturer))
    /\ ret' = Some(no_provider_error(call.manufacturer))
    /\ pc' = "returned"
    /\ UNCHANGED <<call, idx, results, counts, events, files, provlog>>
    /\ UNCHANGED provVars

\* download_ies_file up to the provider's download_ies_file(..).await
DownloadStart ==
    /\ pc = "invoked" /\ call.op = "download"
    /\ IsSome(get_provider(call.manufacturer))
    /\ CallProvider(Unwrap(get_provider(call.manufacturer)), call.model_number,
                    call.psu, call.dest_path)
    /\ pc' = "provider"
    /\ UNCHANGED <<call, files>>
    /\ UNCHANGED cmdVars

\* download_ies_file returns what the provider returned
DownloadReturn ==
    /\ pc = "provider" /\ call.op = "download" /\ ppc = "done"
    /\ ret' = Some(Unwrap(pret).ret)
    /\ pc' = "returned"
    /\ UNCHANGED <<call, idx, results, counts, events, files, provlog>>
    /\ UNCHANGED provVars

TokistarBaseUrl == Text("https://toki.co.jp/tokistar")

\* koizumi_product_info failing when the page holds no link
koizumi_product_info_or_not_found(model_number, looked_up) ==
    IF ~looked_up.ok THEN looked_up
    ELSE IF IsNone(looked_up.val)
    THEN Err(<<Text("IES file not found for: "), model_number>>)
    ELSE Ok([model_number |-> model_number,
             product_name |-> None,
             price |-> None,
             ies_file_url |-> looked_up.val,
             image_url |-> None,
             product_page_url |-> Some(<<KoizumiBaseUrl,
                                         Text("/kensaku/item/detail/?itemid="),
                                         model_number>>)])

\* KoizumiProvider::fetch_product_info from the lookup's return value on
koizumi_product_info(model_number, looked_up) ==
    IF ~looked_up.ok THEN looked_up
    ELSE Ok([model_number |-> model_number,
             product_name |-> None,
             price |-> None,
             ies_file_url |-> looked_up.val,
             image_url |-> None,
             product_page_url |-> Some(<<KoizumiBaseUrl,
                                         Text("/kensaku/item/detail/?itemid="),
                                         model_number>>)])

\* TokistarProvider::fetch_product_info from the lookup's return value on
tokistar_product_info(model_number, looked_up) ==
    IF ~looked_up.ok THEN looked_up
    ELSE Ok([model_number |-> model_number,
             product_name |-> None,
             price |-> None,
             ies_file_url |-> looked_up.val,
             image_url |-> None,
             product_page_url |-> Some(<<TokistarBaseUrl,
                                         Text("/download01/?freeword="),
                                         extract_partial_fixture_id(model_number)>>)])

\* fetch_product_info for a manufacturer no provider handles
FetchNoProvider ==
    /\ pc = "invoked" /\ call.op = "fetch"
    /\ IsNone(get_provider(call.manufacturer))
    /\ ret' = Some(no_provider_error(call.manufacturer))
    /\ pc' = "returned"
    /\ UNCHANGED <<call, idx, results, counts, events, files, provlog>>
    /\ UNCHANGED provVars

\* fetch_product_info up to the provider's page request
FetchStart ==
    /\ pc = "invoked" /\ call.op = "fetch"
    /\ IsSome(get_provider(call.manufacturer))
    /\ pc' = "fetch"
    /\ UNCHANGED <<call, files>>
    /\ UNCHANGED cmdVars
    /\ UNCHANGED provVars

\* why a fetch_product_info ended as it did
fetch_cause(r) == IF ~r.ok THEN "transport" ELSE IF IsSome(r.val) THEN "ok" ELSE "not_found"

\* the provider's fetch_product_info, and the command's return
FetchReturn ==
    /\ pc = "fetch"
    /\ LET p == Unwrap(get_provider(call.manufacturer))
       IN  IF p = Koizumi
           THEN \E answer \in PageAnswers(FileIds) :
                  LET r == get_ies_download_url(answer)
                      info == koizumi_product_info(call.model_number, r)
                  IN  /\ lookups' = Append(lookups, Lookup(call.model_number, r))
                      /\ pret' = Some(Ended(info, fetch_cause(r), None))
                      /\ ret' = Some(info)
           ELSE \E answer \in PageAnswers(ZipUrls) :
                  LET partial_id == extract_partial_fixture_id(call.model_number)
                      r == get_ies_zip_url(answer)
                      info == tokistar_product_info(call.model_number, r)
                  IN  /\ lookups' = Append(lookups, Lookup(partial_id, r))
                      /\ pret' = Some(Ended(info, fetch_cause(r), None))
                      /\ ret' = Some(info)
    /\ pc' = "returned"
    /\ UNCHANGED <<call, idx, results, counts, events, files, provlog>>
    /\ UNCHANGED <<ppc, pargs, item_id, url>>

-----------------------------------------------------------------------------

Next ==
    \/ BatchStart
    \/ BatchItemNoProvider
    \/ BatchItemDownload
    \/ BatchItemFinish
    \/ BatchReturn
    \/ KoizumiLookup
    \/ KoizumiFallback
    \/ KoizumiGet
    \/ TokistarSearch
    \/ TokistarZip
    \/ DownloadNoProvider
    \/ DownloadStart
    \/ DownloadReturn
    \/ FetchNoProvider
    \/ FetchStart
    \/ FetchReturn

Spec == Init /\ [][Next]_vars

-----------------------------------------------------------------------------
(* Properties of batch_download_ies_files.                                 *)

IsBatch == call.op = "batch"
BatchReturned == IsBatch /\ pc = "returned"

\* a DownloadResult holds a success (path, size, no error) or a failure
\* (error, no path, no size)
WellFormed(r) ==
    \/ r.success /\ IsSome(r.file_path) /\ IsSome(r.file_size) /\ IsNone(r.error)
    \/ ~r.success /\ IsNone(r.file_path) /\ IsNone(r.file_size) /\ IsSome(r.error)

\* the rename error a failed commit records
RenameFailure == DownloadResult_failure(<<Text("Failed to rename file: "), Text(IoError)>>)

\* item i's provider call returned a success
Downloaded(i) == IsSome(provlog[i]) /\ Unwrap(provlog[i]).ok /\ Unwrap(provlog[i]).val.success

\* no registered provider handles the manufacturer
Unmatched(manufacturer) == \A i \in DOMAIN providers : ~can_handle(providers[i], manufacturer)

\* C1: every DownloadResult a provider call returns, the batch records or a
\* command returns is well formed: a success with path and size and no error,
\* or a failure with an error and neither path nor size; also after the
\* rename step has rewritten file_path or replaced the result.
C1_DownloadResultWellFormed ==
    /\ \A i \in DOMAIN results : WellFormed(results[i].result)
    /\ (ppc = "done" /\ Unwrap(pret).ret.ok) => WellFormed(Unwrap(pret).ret.val)
    /\ \A i \in DOMAIN provlog :
          (IsSome(provlog[i]) /\ Unwrap(provlog[i]).ok) => WellFormed(Unwrap(provlog[i]).val)
    /\ BatchReturned =>
          \A i \in DOMAIN Unwrap(ret).val.results :
              WellFormed(Unwrap(ret).val.results[i].result)
    /\ (call.op = "download" /\ pc = "returned" /\ Unwrap(ret).ok) =>
          WellFormed(Unwrap(ret).val)

\* a batch has returned with a result whose file_path the rename rewrote and
\* a result the failed rename replaced
C1_Witness ==
    /\ BatchReturned
    /\ \E i, j \in DOMAIN results :
          /\ Downloaded(i) /\ results[i].result.success
          /\ results[i].result.file_path # Unwrap(provlog[i]).val.file_path
          /\ Downloaded(j) /\ results[j].result = RenameFailure

\* C2: the results have one entry per request item, the i-th carrying the
\* spec_no and model_number of the i-th item, while the batch runs and in
\* the value it returns, whatever the items' outcomes.
C2_ResultsFollowRequest ==
    IsBatch =>
      /\ Len(results) <= Len(Items)
      /\ \A i \in DOMAIN results :
            /\ results[i].spec_no = Items[i].spec_no
            /\ results[i].model_number = Items[i].model_number
      /\ pc = "returned" =>
            /\ Unwrap(ret).ok
            /\ Len(Unwrap(ret).val.results) = Len(Items)
            /\ \A i \in DOMAIN Items :
                  /\ Unwrap(ret).val.results[i].spec_no = Items[i].spec_no
                  /\ Unwrap(ret).val.results[i].model_number = Items[i].model_number

\* a batch of three items has returned with successes and failures mixed
C2_Witness ==
    /\ BatchReturned
    /\ Len(Items) = MaxItems
    /\ results[1].result.success
    /\ ~results[2].result.success
    /\ results[Len(Items)].result.success

\* C3: an item no provider handles gets the failure "No provider for:
\* <manufacturer>", no provider download is made for it, the batch goes on
\* to return a result for every item, every item a provider handles gets a
\* download, and three items of which only the second is unmatched and the
\* others succeed give success_count = 2 and failure_count = 1.
C3_NoProviderIsPerItemFailure ==
    IsBatch =>
      /\ \A i \in DOMAIN results :
            IF Unmatched(Items[i].manufacturer)
            THEN /\ results[i].result =
                       DownloadResult_failure(<<Text("No provider for: "),
                                                Items[i].manufacturer>>)
                 /\ IsNone(provlog[i])
            ELSE IsSome(provlog[i])
      /\ pc = "provider" => ~Unmatched(Items[idx].manufacturer)
      /\ pc = "returned" => Len(Unwrap(ret).val.results) = Len(Items)
      /\ ( /\ pc = "returned"
           /\ Len(Items) = 3
           /\ \A i \in DOMAIN Items : Unmatched(Items[i].manufacturer) <=> i = 2
           /\ results[1].result.success
           /\ results[3].result.success )
         => /\ Unwrap(ret).val.success_count = 2
            /\ Unwrap(ret).val.failure_count = 1

\* the batch of three has returned: item 2 unmatched, items 1 and 3 succeeded
C3_Witness ==
    /\ BatchReturned
    /\ Len(Items) = 3
    /\ \A i \in DOMAIN Items : Unmatched(Items[i].manufacturer) <=> i = 2
    /\ results[1].result.success
    /\ IsSome(results[2].result.error)
    /\ results[3].result.success

\* C4: a provider's Err(e) is recorded as the item's failure carrying e, a
\* provider's soft failure is recorded as it is, the loop is at the item
\* after the last recorded one whatever the recorded outcomes, and the
\* command returns Ok with a result for every item.
C4_FailureDoesNotAbort ==
    IsBatch =>
      /\ \A i \in DOMAIN results :
            /\ (IsSome(provlog[i]) /\ ~Unwrap(provlog[i]).ok) =>
                  results[i].result = DownloadResult_failure(Unwrap(provlog[i]).val)
            /\ (IsSome(provlog[i]) /\ Unwrap(provlog[i]).ok
                  /\ ~Unwrap(provlog[i]).val.success) =>
                  /\ results[i].result = Unwrap(provlog[i]).val
                  /\ IsSome(results[i].result.error)
      /\ pc = "loop" => idx = Len(results) + 1
      /\ pc = "provider" => idx = Len(results) + 1 /\ idx <= Len(Items)
      /\ pc = "returned" =>
            /\ Unwrap(ret).ok
            /\ Len(Unwrap(ret).val.results) = Len(Items)

\* a batch of three items has returned in which the first item's provider
\* returned Err and a later item succeeded
C4_Witness ==
    /\ BatchReturned
    /\ Len(Items) = MaxItems
    /\ IsSome(provlog[1]) /\ ~Unwrap(provlog[1]).ok
    /\ results[1].result.error = Some(Unwrap(provlog[1]).val)
    /\ \E j \in DOMAIN results : j > 1 /\ results[j].result.success

\* C5: the events are, item by item in request order, one "processing"
\* event then one terminal event for the item's spec_no; the terminal event
\* is "success" without error exactly when the recorded result is a success
\* and else "error" with the result's message; an item in flight has
\* emitted its "processing" event only.
C5_ProgressEvents ==
    IsBatch =>
      /\ Len(events) = 2 * Len(results) + (IF pc = "provider" THEN 1 ELSE 0)
      /\ \A i \in DOMAIN results :
            /\ events[2 * i - 1] = [spec_no |-> Items[i].spec_no,
                                    status |-> "processing", error |-> None]
            /\ events[2 * i].spec_no = Items[i].spec_no
            /\ events[2 * i].status \in {"success", "error"}
            /\ events[2 * i].status = "success" <=> results[i].result.success
            /\ events[2 * i].status = "success" => IsNone(events[2 * i].error)
            /\ events[2 * i].status = "error" =>
                  /\ IsSome(events[2 * i].error)
                  /\ events[2 * i].error = results[i].result.error
      /\ pc = "provider" =>
            events[Len(events)] = [spec_no |-> Items[idx].spec_no,
                                   status |-> "processing", error |-> None]

\* a batch has returned after an item without provider, an item whose rename
\* failed and an item that succeeded
C5_Witness ==
    /\ BatchReturned
    /\ Len(events) = 2 * MaxItems
    /\ \E i, j, k \in DOMAIN results :
          /\ IsNone(provlog[i])
          /\ Downloaded(j) /\ results[j].result = RenameFailure
          /\ results[k].result.success

\* the temp path of item i and the final path its download is renamed to
TempPathOf(i) == temp_path(call.request.dest_dir, Items[i].spec_no)
FinalPathOf(i) ==
    final_path(call.request.dest_dir,
               generate_filename(Unwrap(get_provider(Items[i].manufacturer)),
                                 Items[i].spec_no, Items[i].model_number, Items[i].psu,
                                 Unwrap(provlog[i]).val.original_filename))

\* the batch has just recorded item i
JustRecorded(i) == pc \in {"loop", "returned"} /\ i = Len(results)

\* C6: after a download that succeeded to the temp path, a
\* successful rename records a success whose file_path is the final path
\* and not the temp path, and the temp file is gone; a failed rename
\* records the rename error as a failure and the temp file stays.
C6_RenameMovesTempAway ==
    IsBatch =>
      \A i \in DOMAIN results :
        Downloaded(i) =>
          IF results[i].result.success
          THEN /\ results[i].result.file_path = Some(FinalPathOf(i))
               /\ results[i].result.file_path # Some(TempPathOf(i))
               /\ JustRecorded(i) =>
                     /\ FinalPathOf(i) \in DOMAIN files
                     /\ TempPathOf(i) \notin DOMAIN files
          ELSE /\ results[i].result = RenameFailure
               /\ JustRecorded(i) => TempPathOf(i) \in DOMAIN files

\* What holds in place of C6 as claimed: after a download that succeeded to
\* the temp path, a successful rename records a success whose file_path is the final path, where the
\* downloaded bytes then are, and the temp file is gone unless the final
\* path is the temp path itself; a failed rename records the rename error
\* as a failure and the temp file stays.
RenameCommitsOrFails ==
    IsBatch =>
      \A i \in DOMAIN results :
        Downloaded(i) =>
          IF results[i].result.success
          THEN /\ results[i].result.file_path = Some(FinalPathOf(i))
               /\ results[i].result.file_size = Unwrap(provlog[i]).val.file_size
               /\ Unwrap(provlog[i]).val.file_path = Some(TempPathOf(i))
               /\ JustRecorded(i) =>
                     /\ FinalPathOf(i) \in DOMAIN files
                     /\ Len(files[FinalPathOf(i)]) = Unwrap(results[i].result.file_size)
                     /\ FinalPathOf(i) # TempPathOf(i) => TempPathOf(i) \notin DOMAIN files
          ELSE /\ results[i].result = RenameFailure
               /\ JustRecorded(i) => TempPathOf(i) \in DOMAIN files

\* C7: success_count is the number of recorded successes, failure_count the
\* number of recorded failures, together the number of items processed; the
\* returned tallies are those of the returned results, one per request item.
C7_TalliesMatchResults ==
    IsBatch =>
      /\ counts.success_count = Cardinality({i \in DOMAIN results : results[i].result.success})
      /\ counts.failure_count = Cardinality({i \in DOMAIN results : ~results[i].result.success})
      /\ counts.success_count + counts.failure_count = Len(results)
      /\ pc = "returned" =>
            LET b == Unwrap(ret).val
            IN  /\ b.success_count =
                     Cardinality({i \in DOMAIN b.results : b.results[i].result.success})
                /\ b.failure_count =
                     Cardinality({i \in DOMAIN b.results : ~b.results[i].result.success})
                /\ b.success_count + b.failure_count = Len(Items)

\* a batch of three items has returned with successes and failures counted
C7_Witness ==
    /\ BatchReturned
    /\ Len(Items) = MaxItems
    /\ Unwrap(ret).val.success_count >= 1
    /\ Unwrap(ret).val.failure_count >= 2

-----------------------------------------------------------------------------
(* Properties of the providers.                                            *)

\* a provider's download_ies_file has returned
ProviderReturned == ppc = "done"

\* C8: a provider's download_ies_file that ends on a not-found condition (no
\* link in the page, also after the fallback; no .ies entry or no matching
\* entry in the archive) returns Ok with a failure carrying a message, and
\* what it returns as Err is a transport, archive-read or filesystem error.
C8_NotFoundIsSoftFailure ==
    ProviderReturned =>
      LET e == Unwrap(pret)
      IN  /\ e.cause = "not_found" =>
                /\ e.ret.ok
                /\ ~e.ret.val.success
                /\ IsSome(e.ret.val.error)
          /\ ~e.ret.ok => e.cause \in {"transport", "archive", "filesystem"}

FetchReturned == call.op = "fetch" /\ pc = "returned"
\* fetch_product_info got a page without a download link
FetchFoundNoLink == FetchReturned /\ IsSome(pret) /\ Unwrap(pret).cause = "not_found"

\* C9 as claimed: fetch_product_info fails when the page fetched for the
\* model holds no download link; it returns no ProductInfo then.
C9_FetchFailsWithoutLink == FetchFoundNoLink => ~Unwrap(ret).ok

\* C9: when the page fetched for the model holds no download link,
\* fetch_product_info returns a ProductInfo for the model whose ies_file_url
\* is absent; it returns a ProductInfo with the URL when the page holds a
\* link, and fails only without a provider or on a failed request.
C9_FetchReturnsInfoWithoutUrl ==
    FetchReturned =>
      /\ FetchFoundNoLink =>
            /\ Unwrap(ret).ok
            /\ IsNone(Unwrap(ret).val.ies_file_url)
            /\ Unwrap(ret).val.model_number = call.model_number
            /\ IsSome(Unwrap(ret).val.product_page_url)
      /\ (IsSome(pret) /\ Unwrap(pret).cause = "ok") =>
            Unwrap(ret).ok /\ IsSome(Unwrap(ret).val.ies_file_url)
      /\ ~Unwrap(ret).ok =>
            \/ Unmatched(call.manufacturer)
            \/ IsSome(pret) /\ Unwrap(pret).cause = "transport"

\* Koizumi's fetch_product_info has returned for a page without a link
C9_Witness ==
    /\ FetchFoundNoLink
    /\ get_provider(call.manufacturer) = Some(Koizumi)
    /\ lookups[1].found = "none"
    /\ Unwrap(ret).ok

\* a call of KoizumiProvider::download_ies_file is under way or has returned
KoizumiCalled == IsSome(pargs) /\ Unwrap(pargs).provider = Koizumi

\* C10: KoizumiProvider::download_ies_file looks up the composite key
\* first; it makes a second lookup exactly when the first found no link and
\* an accessory text was given, with the base fixture identifier alone (the
\* key built without accessory) as its key; it makes no third lookup, and
\* it reports not-found only after the last lookup it owes found no link.
C10_FallbackLooksUpBaseIdentifier ==
    KoizumiCalled =>
      LET a == Unwrap(pargs)
      IN  /\ Len(lookups) <= 2
          /\ Len(lookups) >= 1 =>
                lookups[1].key = build_item_id(a.model_number, a.psu)
          /\ Len(lookups) = 2 =>
                /\ psu_given(a.psu)
                /\ lookups[1].found = "none"
                /\ lookups[2].key = build_item_id(a.model_number, None)
          /\ ppc = "k_fallback" => psu_given(a.psu) /\ lookups[1].found = "none"
          /\ (Len(lookups) = 1 /\ lookups[1].found = "none" /\ psu_given(a.psu)) =>
                ppc = "k_fallback"
          /\ (ProviderReturned /\ Unwrap(pret).cause = "not_found") =>
                /\ lookups[Len(lookups)].found = "none"
                /\ psu_given(a.psu) => Len(lookups) = 2

\* What holds in place of C10: the same, the second lookup's key being the
\* fixture text as given.
FallbackLooksUpFixtureText ==
    KoizumiCalled =>
      LET a == Unwrap(pargs)
      IN  /\ Len(lookups) <= 2
          /\ Len(lookups) >= 1 =>
                lookups[1].key = build_item_id(a.model_number, a.psu)
          /\ Len(lookups) = 2 =>
                /\ psu_given(a.psu)
                /\ lookups[1].found = "none"
                /\ lookups[2].key = a.model_number
          /\ ppc = "k_fallback" => psu_given(a.psu) /\ lookups[1].found = "none"
          /\ (Len(lookups) = 1 /\ lookups[1].found = "none" /\ psu_given(a.psu)) =>
                ppc = "k_fallback"
          /\ (ProviderReturned /\ Unwrap(pret).cause = "not_found") =>
                /\ lookups[Len(lookups)].found = "none"
                /\ psu_given(a.psu) => Len(lookups) = 2

-----------------------------------------------------------------------------
(* The pure functions, each applied to arguments drawn from bounded sets.  *)

MaxFiles == 3

\* fixture identifiers and archive entries for select_best_ies_file
FixtureIds ==
    { <<"A","1","-","3","K">>, <<"A","1">>, <<"X","9">> }
IesFiles ==
    { <<"A","1","_","2","K",".","i","e","s">>,
      <<"A","1","_","3","K","_","3","D",".","i","e","s">>,
      <<"A","1",".","i","e","s">>,
      <<"d","/","A","1","_","3","K",".","I","E","S">>,
      <<"B","2",".","i","e","s">> }
SelectCalls ==
    { [op |-> "select_best_ies_file", fixture_id |-> id, ies_files |-> fs] :
          id \in FixtureIds, fs \in SeqsUpTo(IesFiles, MaxFiles) }

\* manufacturer texts for get_provider: each alias as it is, in capitals
\* and with a leading capital, other vendors' names and near misses, alone
\* and inside a longer text, and texts naming both vendors
VendorNames ==
    KoizumiAliases \cup TokistarAliases \cup
    { <<"K","O","I","Z","U","M","I">>, <<"K","o","i","z","u","m","i">>,
      <<"T","O","K","I","S","T","A","R">>, <<"T","o","k","i","S","t","a","r">>,
      <<"U+5927","U+5149">>, <<"P","a","n","a">>, <<>>,
      <<"k","o","i","z","u","m">>, <<"t","o","k","i"," ","s","t","a","r">> }
NameAffixes == { <<>>, <<"x">>, <<"U+7167","U+660E">> }
ManufacturerTexts ==
    { pre \o n \o post : pre \in NameAffixes, n \in VendorNames, post \in NameAffixes }
    \cup { a \o <<"/">> \o b : a \in KoizumiAliases, b \in TokistarAliases }
    \cup { b \o <<"/">> \o a : a \in KoizumiAliases, b \in TokistarAliases }
GetProviderCalls ==
    { [op |-> "get_provider", manufacturer |-> m] : m \in ManufacturerTexts }

\* arguments of generate_filename: models with and without path separators,
\* accessories absent, empty and given, original filenames absent, with the
\* extension in several letter cases, doubled, other and none
FnSpecNos == { <<"1","0">>, <<"t","e","m","p">> }
FnModels == { <<"A","D","1">>, <<"A","/","D","\\","1">>, <<"t","e","m","p","-","1">> }
FnPsus == { None, Some(<<>>), Some(<<"X","E","9">>), Some(<<"X","/","E">>) }
OriginalFilenames ==
    { None, Some(<<"A",".","i","e","s">>), Some(<<"B",".","I","E","S">>),
      Some(<<"C",".","I","e","s">>), Some(<<"D">>),
      Some(<<"E",".","i","e","s",".","i","e","s">>), Some(<<"F",".","t","x","t">>) }
GenerateFilenameCalls ==
    { [op |-> "generate_filename", provider |-> p, spec_no |-> n,
       model_number |-> m, psu |-> q, original_filename |-> o] :
          p \in Range(providers), n \in FnSpecNos, m \in FnModels, q \in FnPsus,
          o \in OriginalFilenames }

\* fixture texts for build_item_id: a model number, one in spaces, the
\* labelled two-part text, a label with a space after the colon, a label
\* without a token, a token cut by a '-', the empty text
FixtureTexts ==
    { <<"A","D","1">>, <<" ","A","D","1","U+3000">>,
      <<"U+672C","U+4F53","U+FF1A","A","H","9","U+000A","U+30E6","U+30CB","U+30C3","U+30C8",":","A","E","4">>,
      <<"U+672C","U+FF1A"," ","A","H","9">>, <<"U+672C","U+FF1A">>,
      <<"x",":","A","-","9">>, <<>> }
\* accessory texts: absent, empty, without colon, with a trailing id after
\* either colon, with a space before or after the id, without a token, with
\* two colons, with an id cut by a '-'
PsuTexts ==
    { None, Some(<<>>), Some(<<"P">>), Some(<<"P","U+FF1A","X","E","9">>),
      Some(<<"P",":","X","E","9">>), Some(<<"P",":"," ","X","E","9">>),
      Some(<<"P",":","X","E","9"," ">>), Some(<<"P","U+FF1A">>),
      Some(<<"a",":","b",":","X","E","9">>), Some(<<"P",":","X","E","-","9">>) }
BuildItemIdCalls ==
    { [op |-> "build_item_id", fixture |-> f, psu |-> q] :
          f \in FixtureTexts, q \in PsuTexts }

FnCalls ==
    SelectCalls \cup GetProviderCalls \cup GenerateFilenameCalls \cup BuildItemIdCalls

FnInit ==
    /\ call \in FnCalls
    /\ pc = "invoked"
    /\ idx = 0
    /\ results = <<>>
    /\ counts = [success_count |-> 0, failure_count |-> 0]
    /\ events = <<>>
    /\ files = <<>>
    /\ ret = None
    /\ ppc = "idle"
    /\ pargs = None
    /\ item_id = <<>>
    /\ url = None
    /\ lookups = <<>>
    /\ pret = None
    /\ provlog = <<>>

\* the function called returns v
Returns(v) ==
    /\ pc = "invoked"
    /\ ret' = Some(v)
    /\ pc' = "returned"
    /\ UNCHANGED <<call, idx, results, counts, events, files, provlog>>
    /\ UNCHANGED provVars

SelectBest ==
    /\ call.op = "select_best_ies_file"
    /\ Returns(select_best_ies_file(call.fixture_id, call.ies_files))

GetProvider ==
    /\ call.op = "get_provider"
    /\ Returns(get_provider(call.manufacturer))

GenerateFilename ==
    /\ call.op = "generate_filename"
    /\ Returns(generate_filename(call.provider, call.spec_no, call.model_number,
                                 call.psu, call.original_filename))

BuildItemId ==
    /\ call.op = "build_item_id"
    /\ Returns(build_item_id(call.fixture, call.psu))

FnNext ==
    \/ SelectBest
    \/ GetProvider
    \/ GenerateFilename
    \/ BuildItemId

FnSpec == FnInit /\ [][FnNext]_vars

-----------------------------------------------------------------------------
(* Properties of select_best_ies_file.                                     *)

Selected == call.op = "select_best_ies_file" /\ pc = "returned"

\* the candidate lists that are reorderings of the call's
Reordered ==
    { [i \in DOMAIN call.ies_files |-> call.ies_files[p[i]]] :
          p \in Permutations(DOMAIN call.ies_files) }

\* the identifier with every '-' replaced by '_'
NormalizedId(id) == [i \in DOMAIN id |-> IF id[i] = "-" THEN "_" ELSE id[i]]

\* the entry's name without its directory path and its .ies extension
BaseName(f) ==
    LET slashes == {i \in DOMAIN f : f[i] = "/"}
        last == IF slashes = {} THEN 0
                ELSE CHOOSE i \in slashes : \A j \in slashes : j <= i
        name == SubSeq(f, last + 1, Len(f))
    IN  IF Len(name) >= 4 /\ ToLower(SubSeq(name, Len(name) - 3, Len(name))) = DotIes
        THEN SubSeq(name, 1, Len(name) - 4)
        ELSE name

\* the length of the common leading character run of a and b
LeadingRun(a, b) ==
    CHOOSE k \in 0..Len(a) :
        /\ k <= Len(b)
        /\ SubSeq(a, 1, k) = SubSeq(b, 1, k)
        /\ (k < Len(a) /\ k < Len(b)) => a[k + 1] # b[k + 1]

RunOf(id, f) == LeadingRun(NormalizedId(id), BaseName(f))

\* the greatest run over the call's candidates
MaxRun ==
    CHOOSE n \in 0..99 :
        /\ \A i \in DOMAIN call.ies_files : RunOf(call.fixture_id, call.ies_files[i]) <= n
        /\ n > 0 => \E i \in DOMAIN call.ies_files :
                        RunOf(call.fixture_id, call.ies_files[i]) = n

\* C11 as claimed: select_best_ies_file returns the same entry for every
\* reordering of the candidate list.
C11_SameEntryUnderReordering ==
    Selected =>
      \A fs \in Reordered : select_best_ies_file(call.fixture_id, fs) = Unwrap(ret)

\* C11: under every reordering of the candidate list select_best_ies_file
\* returns an entry exactly when it did for the list given, and one of the
\* same (maximal) run length; it returns the same entry when only one entry
\* has the maximal run; among several with the maximal run it returns the
\* one that is last in the list.
C11_SameRunUnderReordering ==
    Selected =>
      /\ \A fs \in Reordered :
            LET r == select_best_ies_file(call.fixture_id, fs)
            IN  /\ IsSome(r) <=> IsSome(Unwrap(ret))
                /\ IsSome(r) =>
                      /\ RunOf(call.fixture_id, Unwrap(r)) = MaxRun
                      /\ RunOf(call.fixture_id, Unwrap(Unwrap(ret))) = MaxRun
                      /\ Cardinality({f \in Range(call.ies_files) :
                                        RunOf(call.fixture_id, f) = MaxRun}) = 1
                            => r = Unwrap(ret)
      /\ IsSome(Unwrap(ret)) =>
            \E i \in DOMAIN call.ies_files :
               /\ call.ies_files[i] = Unwrap(Unwrap(ret))
               /\ \A j \in DOMAIN call.ies_files :
                     j > i => RunOf(call.fixture_id, call.ies_files[j]) < MaxRun

\* select_best_ies_file has returned one of two entries that share the
\* maximal run, and returns the other for a reordering
C11_Witness ==
    /\ Selected
    /\ IsSome(Unwrap(ret))
    /\ \E f \in Range(call.ies_files) :
          /\ f # Unwrap(Unwrap(ret))
          /\ RunOf(call.fixture_id, f) = MaxRun
          /\ \E fs \in Reordered : select_best_ies_file(call.fixture_id, fs) = Some(f)

C12_NoneWitness ==
    Selected /\ call.ies_files # <<>> /\ IsNone(Unwrap(ret))

-----------------------------------------------------------------------------
(* Properties of the registry.                                             *)

\* the characters c and d are equal up to letter case
SameLetter(c, d) == ToLowerChar(c) = ToLowerChar(d)

\* the text holds the alias somewhere, in any letter case
Names(text, alias) ==
    \E i \in 1..(Len(text) + 1) :
       /\ i + Len(alias) - 1 <= Len(text)
       /\ \A k \in 1..Len(alias) : SameLetter(text[i + k - 1], alias[k])

AliasesOf(p) == IF p = Koizumi THEN KoizumiAliases ELSE TokistarAliases
NamesVendor(text, p) == \E a \in AliasesOf(p) : Names(text, a)

\* C13: get_provider returns the first provider in registration order
\* (Koizumi, then Tokistar) whose can_handle holds and none when none
\* holds; can_handle of a provider holds exactly for the texts that hold one
\* of its aliases in any letter case.
C13_DispatchByAlias ==
    (call.op = "get_provider" /\ pc = "returned") =>
      LET m == call.manufacturer
      IN  /\ \A i \in DOMAIN providers :
                can_handle(providers[i], m) <=> NamesVendor(m, providers[i])
          /\ Unwrap(ret) = IF NamesVendor(m, Koizumi) THEN Some(Koizumi)
                           ELSE IF NamesVendor(m, Tokistar) THEN Some(Tokistar)
                           ELSE None
          /\ IsSome(Unwrap(ret)) =>
                \E i \in DOMAIN providers :
                   /\ providers[i] = Unwrap(Unwrap(ret))
                   /\ can_handle(providers[i], m)
                   /\ \A j \in 1..(i - 1) : ~can_handle(providers[j], m)
          /\ IsNone(Unwrap(ret)) =>
                \A i \in DOMAIN providers : ~can_handle(providers[i], m)

\* a text holding "Koizumi" with a capital inside a longer text has been
\* dispatched to Koizumi's provider
C13_Witness ==
    /\ call.op = "get_provider"
    /\ pc = "returned"
    /\ call.manufacturer = <<"x","K","o","i","z","u","m","i","U+7167","U+660E">>
    /\ Unwrap(ret) = Some(Koizumi)

-----------------------------------------------------------------------------
(* Properties of generate_filename.                                        *)

FilenameGenerated(p) ==
    call.op = "generate_filename" /\ call.provider = p /\ pc = "returned"

\* the text with every '/' and '\' replaced by '_'
Sanitized(t) == [i \in DOMAIN t |-> IF t[i] \in {"/", "\\"} THEN "_" ELSE t[i]]

\* the name ends in .ies, in any letter case
HasIesExtension(name) ==
    /\ Len(name) >= 4
    /\ \A k \in 1..4 : SameLetter(name[Len(name) - 4 + k], DotIes[k])

\* the name without its .ies extension
WithoutIesExtension(name) ==
    IF HasIesExtension(name) THEN SubSeq(name, 1, Len(name) - 4) ELSE name

\* C14: Tokistar's generate_filename returns spec_no, '_' and the original
\* filename, with ".ies" appended only when the original does not end in
\* .ies in any letter case; without an original filename it returns
\* spec_no, '_', the model with '/' and '\' replaced by '_', and ".ies"; the
\* result is the same for every accessory.
C14_TokistarFilename ==
    FilenameGenerated(Tokistar) =>
      /\ Unwrap(ret) =
            IF IsSome(call.original_filename)
            THEN call.spec_no \o <<"_">> \o Unwrap(call.original_filename)
                   \o (IF HasIesExtension(Unwrap(call.original_filename))
                       THEN <<>> ELSE DotIes)
            ELSE call.spec_no \o <<"_">> \o Sanitized(call.model_number) \o DotIes
      /\ \A q \in FnPsus :
            generate_filename(Tokistar, call.spec_no, call.model_number, q,
                              call.original_filename) = Unwrap(ret)

\* Tokistar's generate_filename has returned for an original filename in
\* capitals and an accessory given
C14_Witness ==
    /\ FilenameGenerated(Tokistar)
    /\ call.original_filename = Some(<<"B",".","I","E","S">>)
    /\ call.psu = Some(<<"X","E","9">>)
    /\ Unwrap(ret) = call.spec_no \o <<"_","B",".","I","E","S">>

\* C15: Koizumi's generate_filename returns spec_no, '_', the original
\* filename without its extension, and ".ies" when an original filename is
\* given; otherwise spec_no, '_', the model, then '+' and the accessory when
\* a non-empty accessory is given, and ".ies", with '/' and '\' in model and
\* accessory replaced by '_'.
C15_KoizumiFilename ==
    FilenameGenerated(Koizumi) =>
      Unwrap(ret) =
         IF IsSome(call.original_filename)
         THEN call.spec_no \o <<"_">>
                \o WithoutIesExtension(Unwrap(call.original_filename)) \o DotIes
         ELSE IF IsSome(call.psu) /\ Unwrap(call.psu) # <<>>
         THEN call.spec_no \o <<"_">> \o Sanitized(call.model_number)
                \o <<"+">> \o Sanitized(Unwrap(call.psu)) \o DotIes
         ELSE call.spec_no \o <<"_">> \o Sanitized(call.model_number) \o DotIes

\* What holds in place of C15: the same, the original filename losing every
\* trailing ".ies" and then every trailing ".IES", and nothing else.
KoizumiFilenameTrimsIes ==
    FilenameGenerated(Koizumi) =>
      Unwrap(ret) =
         IF IsSome(call.original_filename)
         THEN call.spec_no \o <<"_">>
                \o TrimEndMatches(TrimEndMatches(Unwrap(call.original_filename),
                                                 DotIes), DotIES)
                \o DotIes
         ELSE IF IsSome(call.psu) /\ Unwrap(call.psu) # <<>>
         THEN call.spec_no \o <<"_">> \o Sanitized(call.model_number)
                \o <<"+">> \o Sanitized(Unwrap(call.psu)) \o DotIes
         ELSE call.spec_no \o <<"_">> \o Sanitized(call.model_number) \o DotIes

-----------------------------------------------------------------------------
(* Properties of build_item_id.                                            *)

\* <<i, a, b>>: s has a colon at i, only white space between i and a, and
\* s[a..b] is a maximal run of letters and digits
TokensAfterColon(s) ==
    { t \in { <<i, a, b>> : i \in DOMAIN s, a \in DOMAIN s, b \in DOMAIN s } :
        /\ IsColon(s[t[1]])
        /\ t[1] < t[2] /\ t[2] <= t[3]
        /\ \A k \in (t[1] + 1)..(t[2] - 1) : IsSpace(s[k])
        /\ \A k \in t[2]..t[3] : IsAlnum(s[k])
        /\ t[3] = Len(s) \/ ~IsAlnum(s[t[3] + 1]) }

\* the tokens of a set of <<i, a, b>>, in order of appearance
RECURSIVE InOrder(_, _)
InOrder(s, ts) ==
    IF ts = {} THEN <<>>
    ELSE LET t == CHOOSE x \in ts : \A y \in ts : x[1] <= y[1]
         IN  <<SubSeq(s, t[2], t[3])>> \o InOrder(s, ts \ {t})

\* the text without leading and trailing white space
Trimmed(s) ==
    LET solid == {i \in DOMAIN s : ~IsSpace(s[i])}
    IN  IF solid = {} THEN <<>>
        ELSE SubSeq(s, CHOOSE i \in solid : \A j \in solid : i <= j,
                       CHOOSE i \in solid : \A j \in solid : j <= i)

\* the fixture identifiers of a fixture text
FixtureIdentifiers(fixture) ==
    IF TokensAfterColon(fixture) = {} THEN <<Trimmed(fixture)>>
    ELSE InOrder(fixture, TokensAfterColon(fixture))

\* the accessory id of an accessory: the token after a colon that ends the text
AccessoryIds(psu) ==
    IF IsNone(psu) THEN <<>>
    ELSE InOrder(Unwrap(psu),
                 {t \in TokensAfterColon(Unwrap(psu)) : t[3] = Len(Unwrap(psu))})

\* the parts with a '+' between them
RECURSIVE PlusJoined(_)
PlusJoined(parts) ==
    IF Len(parts) = 0 THEN <<>>
    ELSE IF Len(parts) = 1 THEN parts[1]
    ELSE parts[1] \o <<"+">> \o PlusJoined(Tail(parts))

BuiltItemId == call.op = "build_item_id" /\ pc = "returned"

\* C16: build_item_id joins with '+' the fixture identifiers (every token of
\* letters and digits after a colon of either width, in order; the trimmed
\* text when there is none) and then the accessory id, the token after a
\* colon that ends the accessory text; an accessory that is absent, empty,
\* without colon or without such a token adds nothing.
C16_BuildItemId ==
    BuiltItemId =>
      /\ Len(AccessoryIds(call.psu)) <= 1
      /\ Unwrap(ret) =
            PlusJoined(FixtureIdentifiers(call.fixture) \o AccessoryIds(call.psu))
      /\ (\/ IsNone(call.psu)
          \/ Unwrap(call.psu) = <<>>
          \/ \A i \in DOMAIN Unwrap(call.psu) : ~IsColon(Unwrap(call.psu)[i])
          \/ ~IsAlnum(Unwrap(call.psu)[Len(Unwrap(call.psu))]))
            => Unwrap(ret) = PlusJoined(FixtureIdentifiers(call.fixture))

\* the labelled two-part fixture text with an accessory naming its id
\* after a full-width colon has given "AH9+AE4+XE9"
C16_Witness ==
    /\ BuiltItemId
    /\ Len(FixtureIdentifiers(call.fixture)) = 2
    /\ call.psu = Some(<<"P","U+FF1A","X","E","9">>)
    /\ Unwrap(ret) = <<"A","H","9","+","A","E","4","+","X","E","9">>

-----------------------------------------------------------------------------
(* Properties of the batch's temp and final paths.                         *)

\* the batch is in the provider call of item idx
BatchInProvider == IsBatch /\ pc = "provider"

\* C17: the path a batch hands to the provider for an item is dest_dir,
\* "/temp_", the item's spec_no and ".ies", whatever the item's other
\* fields; no other item of the batch (their spec_no being pairwise
\* distinct) has that temp path.
C17_TempPathPerSpecNo ==
    BatchInProvider =>
      LET TempOf(i) == call.request.dest_dir \o <<"/","t","e","m","p","_">>
                         \o Items[i].spec_no \o <<".","i","e","s">>
      IN  /\ Unwrap(pargs).dest_path = TempOf(idx)
          /\ \A i, j \in DOMAIN Items : i # j => TempOf(i) # TempOf(j)
          /\ \A i \in DOMAIN Items : i # idx => TempOf(i) # Unwrap(pargs).dest_path

\* the second provider call of a batch of MaxItems items is under way, the
\* first having written its temp file
C17_Witness ==
    /\ BatchInProvider
    /\ Len(Items) = MaxItems
    /\ \E i \in 1..(idx - 1) :
          /\ IsSome(provlog[i])
          /\ Unwrap(provlog[i]).ok
          /\ Unwrap(provlog[i]).val.success

\* item i's recorded result is a success
Committed(i) == results[i].result.success

\* C19: in a batch (its spec_no pairwise distinct) the final paths of the
\* successful items are pairwise distinct and none is the temp path of an
\* item of the batch; the file an item committed stays at its final path
\* with the bytes the item downloaded, whatever later items write or rename.
C19_FinalPathsApart ==
    IsBatch =>
      /\ \A i, j \in DOMAIN results :
            (i < j /\ Committed(i) /\ Committed(j)) =>
               results[i].result.file_path # results[j].result.file_path
      /\ \A i \in DOMAIN results : \A j \in DOMAIN Items :
            Committed(i) => results[i].result.file_path # Some(TempPathOf(j))
      /\ \A i \in DOMAIN results :
            Committed(i) =>
               /\ Unwrap(results[i].result.file_path) \in DOMAIN files
               /\ Len(files[Unwrap(results[i].result.file_path)])
                     = Unwrap(results[i].result.file_size)

\* a batch has returned a success for an item whose committed file is no
\* longer on disk: a later item wrote its temp file over it and renamed it
C19_Witness ==
    /\ BatchReturned
    /\ \E i \in DOMAIN results : \E j \in DOMAIN results :
          /\ i < j
          /\ Committed(i)
          /\ results[i].result.file_path = Some(TempPathOf(j))
          /\ Committed(j)
          /\ Unwrap(results[i].result.file_path) \notin DOMAIN files

-----------------------------------------------------------------------------
(* commands.rs and lib.rs: commands invoked concurrently.  Every command    *)
(* starts with registry.lock().await on the one tokio Mutex that run()      *)
(* manages, and keeps the guard in a local until it returns.  Here call, pc *)
(* and idx hold one value per task, and events is the order in which the    *)
(* tasks' effects happen.                                                   *)

MaxTasks == 2
MaxBatchLen == 2

Tasks == 1..MaxTasks

\* the commands of the invoke handler; of a batch only the number of items
Commands ==
    { [op |-> "batch", items |-> n] : n \in 1..MaxBatchLen }
    \cup { [op |-> o, items |-> 0] :
             o \in {"download", "fetch", "get_supported_manufacturers",
                    "is_manufacturer_supported"} }

\* the guard is dropped while the provider call is awaited
guard_dropped_in_await(at) == at \in {"locked", "loop", "ran"}

\* the positions of a command at which its MutexGuard is alive: from the
\* completion of lock().await to the return
guard_alive(at) == at \in {"locked", "loop", "provider", "downloaded", "ran"}

\* the tasks holding a guard of the mutex
Holders == {t \in Tasks : guard_alive(pc[t])}

ConcInit ==
    /\ call \in [Tasks -> Commands]
    /\ pc = [t \in Tasks |-> "invoked"]
    /\ idx = [t \in Tasks |-> 0]
    /\ results = <<>>
    /\ counts = [success_count |-> 0, failure_count |-> 0]
    /\ events = <<>>
    /\ files = <<>>
    /\ ret = None
    /\ ppc = "idle"
    /\ pargs = None
    /\ item_id = <<>>
    /\ url = None
    /\ lookups = <<>>
    /\ pret = None
    /\ provlog = <<>>

\* task t moves to position at, its effects what appended to the order
Step(t, at, i, what) ==
    /\ pc' = [pc EXCEPT ![t] = at]
    /\ idx' = [idx EXCEPT ![t] = i]
    /\ events' = events \o what
    /\ UNCHANGED <<call, results, counts, files, ret, provlog>>
    /\ UNCHANGED provVars

Effect(t, kind) == [task |-> t, kind |-> kind, item |-> idx[t]]

\* registry.lock().await completes: no guard of the mutex is alive
Acquire(t) ==
    /\ pc[t] = "invoked"
    /\ Holders = {}
    /\ Step(t, IF call[t].op = "batch" THEN "loop" ELSE "locked",
            IF call[t].op = "batch" THEN 1 ELSE 0, <<>>)

\* a batch's iteration up to the provider call: the "processing" event
ConcBatchProcessing(t) ==
    /\ call[t].op = "batch" /\ pc[t] = "loop" /\ idx[t] <= call[t].items
    /\ Step(t, "provider", idx[t], <<Effect(t, "processing")>>)

\* the awaited provider call writes the temp file
ConcBatchTempWrite(t) ==
    /\ pc[t] = "provider"
    /\ Step(t, "downloaded", idx[t], <<Effect(t, "temp_write")>>)

\* the rest of the iteration: the rename and the terminal event
ConcBatchFinish(t) ==
    /\ pc[t] = "downloaded"
    /\ Step(t, "loop", idx[t] + 1, <<Effect(t, "rename"), Effect(t, "terminal")>>)

\* the batch returns; its guard is dropped
ConcBatchReturn(t) ==
    /\ call[t].op = "batch" /\ pc[t] = "loop" /\ idx[t] > call[t].items
    /\ Step(t, "returned", idx[t], <<>>)

\* a single-item command does its work
ConcSingleRun(t) ==
    /\ pc[t] = "locked"
    /\ Step(t, "ran", 0, <<Effect(t, call[t].op)>>)

\* it returns; its guard is dropped
ConcSingleReturn(t) ==
    /\ pc[t] = "ran"
    /\ Step(t, "returned", 0, <<>>)

ConcNext ==
    \E t \in Tasks :
        \/ Acquire(t)
        \/ ConcBatchProcessing(t)
        \/ ConcBatchTempWrite(t)
        \/ ConcBatchFinish(t)
        \/ ConcBatchReturn(t)
        \/ ConcSingleRun(t)
        \/ ConcSingleReturn(t)

ConcSpec == ConcInit /\ [][ConcNext]_vars

\* the positions of the order at which task t acted
ActedAt(t) == {i \in DOMAIN events : events[i].task = t}

\* C18: at most one command holds the registry mutex, a command acts only
\* while it holds it, and the effects of a command are together in the
\* order of effects: between two effects of one task (the events, temp
\* writes and renames of a batch) there is no effect of another task, be it
\* another batch or a single-item command.
C18_CommandsDoNotInterleave ==
    /\ Cardinality(Holders) <= 1
    /\ \A t \in Tasks :
          pc[t] \in {"loop", "provider", "downloaded", "locked", "ran"}
             => Holders = {t}
    /\ \A t \in Tasks : pc[t] = "invoked" => ActedAt(t) = {}
    /\ \A t, u \in Tasks :
          t # u =>
             \A i, k \in ActedAt(t) : \A j \in ActedAt(u) : ~(i < j /\ j < k)
    /\ \A t, u \in Tasks :
          (t # u /\ guard_alive(pc[t]) /\ ActedAt(t) # {}) =>
             \A j \in ActedAt(u) : \A i \in ActedAt(t) : j < i

\* two batches of MaxBatchLen items were invoked together and both have
\* returned
C18_Witness ==
    /\ \A t \in {1, 2} :
          /\ call[t].op = "batch"
          /\ call[t].items = MaxBatchLen
          /\ pc[t] = "returned"
    /\ Cardinality(ActedAt(1)) = 4 * MaxBatchLen
    /\ Cardinality(ActedAt(2)) = 4 * MaxBatchLen

=============================================================================
